---- MODULE Spec2Model ----
(***************************************************************************)
(* Model of core/models/img2bev/transformer_utils/encoder.py (CGFormer):   *)
(* the reference-point generator, the camera projection (point_sampling)   *)
(* of VoxFormerEncoder and VoxFormerEncoder_DFA3D, the encoder's forward   *)
(* pass over its layers, and the operation-order state machine of          *)
(* VoxFormerLayer.forward.                                                 *)
(*                                                                         *)
(* Tensors are functions over 1-based index ranges.  Real numbers are      *)
(* exact rationals <<numerator, denominator>> in lowest terms with a       *)
(* positive denominator; floating-point rounding is not modelled.          *)
(***************************************************************************)
EXTENDS Integers, Sequences, FiniteSets, TLC

VARIABLES
    pc,          \* position of the program
    grid,        \* arguments of get_reference_points: H, W, Z, D, bs
    ref_3d,      \* storage of the 3D reference-point tensor [bs][D][H*W] -> <<x, y, z>>
    ref_2d,      \* result of get_reference_points(dim='2d'): [bs][H*W][1] -> <<x, y>>
    ref_in,      \* the values ref_3d held when the caller handed it over
    cam_params,  \* rots, trans, intrins, post_rots, post_trans, bda
    ps_out,      \* what point_sampling returned, per projector variant
    layer_cfg,   \* arguments of VoxFormerLayer.__init__
    layer,       \* the constructed layer, or the error its construction raised
    call_args,   \* arguments the caller passes: to VoxFormerLayer.forward, or to the encoder's forward
    fwd,         \* locals of the current VoxFormerLayer.forward pass
    encoder,     \* the encoder object: class, return_intermediate, layers
    enc,         \* locals of the current VoxFormerEncoder.forward call
    ref_obj,     \* which tensor object ref_3d is (a new one each time it is generated)
    calls        \* the finished VoxFormerEncoder.forward calls, in order

psVars == <<grid, ref_3d, ref_2d, ref_in, cam_params, ps_out>>
layerVars == <<layer_cfg, layer, call_args, fwd>>
encVars == <<encoder, enc, ref_obj, calls>>

vars == <<pc, psVars, layerVars, encVars>>

(***************************************************************************)
(* Bounds of the model.                                                    *)
(***************************************************************************)
MaxH == 3
MaxW == 3
MaxZ == 2
MaxD == 2
MaxBs == 2
MaxOps == 3
MaxFfn == 1
MaxLayers == 2
MaxCalls == 2

(***************************************************************************)
(* Exact rational arithmetic.                                              *)
(***************************************************************************)
Abs(n) == IF n < 0 THEN -n ELSE n

RECURSIVE GCD(_, _)
GCD(a, b) == IF b = 0 THEN a ELSE GCD(b, a % b)

Rat(n, d) ==
    LET s == IF d < 0 THEN -1 ELSE 1
        g == GCD(Abs(n), Abs(d))
    IN  <<(s * n) \div g, (s * d) \div g>>

RInt(n) == <<n, 1>>
RZero == <<0, 1>>
ROne == <<1, 1>>
Half == <<1, 2>>

RNeg(a) == <<-a[1], a[2]>>

RAdd(a, b) ==
    LET g == GCD(a[2], b[2])
    IN  Rat(a[1] * (b[2] \div g) + b[1] * (a[2] \div g), (a[2] \div g) * b[2])

RSub(a, b) == RAdd(a, RNeg(b))

RMul(a, b) ==
    LET g1 == GCD(Abs(a[1]), b[2])
        g2 == GCD(Abs(b[1]), a[2])
    IN  <<(a[1] \div g1) * (b[1] \div g2), (a[2] \div g2) * (b[2] \div g1)>>

RInv(a) == IF a[1] < 0 THEN <<-a[2], -a[1]>> ELSE <<a[2], a[1]>>

RDiv(a, b) == RMul(a, RInv(b))

\* the sequence f with every element evaluated
Eager(f) == f \o <<>>

(***************************************************************************)
(* torch.linspace(start, end, steps): steps evenly spaced values; a single *)
(* step yields the start value.                                            *)
(***************************************************************************)
Linspace(start, end, steps) ==
    Eager([i \in 1..steps |->
        IF steps = 1 THEN start
        ELSE RAdd(start, RMul(RInt(i - 1), RDiv(RSub(end, start), RInt(steps - 1))))])

(***************************************************************************)
(* VoxFormerEncoder.get_reference_points.                                  *)
(***************************************************************************)
\* zs, xs, ys after .view(...).expand(num_points_in_pillar, H, W) and the division
ZsExpanded(H, W, Z, D) ==
    LET lin == Linspace(Half, RSub(RInt(Z), Half), D)
    IN  [d \in 1..D |-> [r \in 1..H |-> [c \in 1..W |-> RDiv(lin[d], RInt(Z))]]]

XsExpanded(H, W, D) ==
    LET lin == Linspace(Half, RSub(RInt(W), Half), W)
    IN  [d \in 1..D |-> [r \in 1..H |-> [c \in 1..W |-> RDiv(lin[c], RInt(W))]]]

YsExpanded(H, W, D) ==
    LET lin == Linspace(Half, RSub(RInt(H), Half), H)
    IN  [d \in 1..D |-> [r \in 1..H |-> [c \in 1..W |-> RDiv(lin[r], RInt(H))]]]

\* the wrong flattening order, column-major
FlattenHW_ColMajor(t, H, W, D) ==
    [d \in 1..D |-> [q \in 1..(H * W) |-> t[d][((q - 1) % H) + 1][((q - 1) \div H) + 1]]]

\* .permute(0, 3, 1, 2).flatten(2).permute(0, 2, 1): [D, H, W, 3] -> [D, H*W, 3],
\* the flat index of (row, col) being row*W + col (0-based)
FlattenHW(t, H, W, D) ==
    [d \in 1..D |-> [q \in 1..(H * W) |-> t[d][((q - 1) \div W) + 1][((q - 1) % W) + 1]]]

get_reference_points_3d(H, W, Z, D, bs) ==
    LET xs == XsExpanded(H, W, D)
        ys == YsExpanded(H, W, D)
        zs == ZsExpanded(H, W, Z, D)
        stacked == [d \in 1..D |-> [r \in 1..H |-> [c \in 1..W |->
                        <<xs[d][r][c], ys[d][r][c], zs[d][r][c]>>]]]
        flat == FlattenHW(stacked, H, W, D)
    IN  [b \in 1..bs |-> flat]

get_reference_points_2d(H, W, bs) ==
    LET ly == Linspace(Half, RSub(RInt(H), Half), H)
        lx == Linspace(Half, RSub(RInt(W), Half), W)
        \* torch.meshgrid(..., indexing='ij') then reshape(-1): row-major
        ref_y == [q \in 1..(H * W) |-> RDiv(ly[((q - 1) \div W) + 1], RInt(H))]
        ref_x == [q \in 1..(H * W) |-> RDiv(lx[((q - 1) % W) + 1], RInt(W))]
    IN  [b \in 1..bs |-> [q \in 1..(H * W) |-> << <<ref_x[q], ref_y[q]>> >>]]

NoTensor == <<>>

Grids == [H : 1..MaxH, W : 1..MaxW, Z : 1..MaxZ, D : 1..MaxD, bs : 1..MaxBs]

RefInit ==
    /\ pc = "ref_start"
    /\ grid \in Grids
    /\ ref_3d = NoTensor
    /\ ref_2d = NoTensor
    /\ ref_in = NoTensor
    /\ cam_params = NoTensor
    /\ ps_out = NoTensor
    /\ layer_cfg = NoTensor /\ layer = NoTensor /\ call_args = NoTensor /\ fwd = NoTensor
    /\ encoder = NoTensor /\ enc = NoTensor /\ ref_obj = 0 /\ calls = <<>>

GetReferencePoints3D ==
    /\ pc = "ref_start"
    /\ ref_3d' = get_reference_points_3d(grid.H, grid.W, grid.Z, grid.D, grid.bs)
    /\ pc' = "ref_3d_done"
    /\ UNCHANGED <<grid, ref_2d, ref_in, cam_params, ps_out, layerVars, encVars>>

GetReferencePoints2D ==
    /\ pc = "ref_start"
    /\ ref_2d' = get_reference_points_2d(grid.H, grid.W, grid.bs)
    /\ pc' = "ref_2d_done"
    /\ UNCHANGED <<grid, ref_3d, ref_in, cam_params, ps_out, layerVars, encVars>>

RefNext == GetReferencePoints3D \/ GetReferencePoints2D

SpecRef == RefInit /\ [][RefNext]_vars

RECURSIVE RSumTo(_, _)
RSumTo(s, n) == IF n = 0 THEN RZero ELSE RAdd(RSumTo(s, n - 1), s[n])

RSum(s) == RSumTo(s, Len(s))

Dot(u, v) == RSum(Eager([i \in DOMAIN u |-> RMul(u[i], v[i])]))

MatVec(M, v) == Eager([i \in DOMAIN M |-> Dot(M[i], v)])

VecAdd(u, v) == Eager([i \in DOMAIN u |-> RAdd(u[i], v[i])])

VecSub(u, v) == Eager([i \in DOMAIN u |-> RSub(u[i], v[i])])

IntVec(v) == Eager([i \in DOMAIN v |-> RInt(v[i])])

IntMat(M) == Eager([i \in DOMAIN M |-> IntVec(M[i])])

\* M without row i and column j
Minor(M, i, j) ==
    LET n == Len(M)
        skip(k, x) == IF k < x THEN k ELSE k + 1
    IN  Eager([r \in 1..(n - 1) |-> Eager([c \in 1..(n - 1) |-> M[skip(r, i)][skip(c, j)]])])

RECURSIVE Det(_)
Det(M) ==
    IF Len(M) = 1 THEN M[1][1]
    ELSE RSum(Eager([j \in 1..Len(M) |->
            RMul(IF j % 2 = 1 THEN M[1][j] ELSE RNeg(M[1][j]), Det(Minor(M, 1, j)))]))

\* torch.inverse: the adjugate over the determinant
Inverse(M) ==
    LET det == Det(M)
    IN  Eager([i \in 1..Len(M) |-> Eager([j \in 1..Len(M) |->
            RDiv(IF (i + j) % 2 = 0 THEN Det(Minor(M, j, i)) ELSE RNeg(Det(Minor(M, j, i))),
                 det)])])

(***************************************************************************)
(* point_sampling: the comparisons against eps = 1e-5.                     *)
(***************************************************************************)
EpsDen == 100000
Eps == <<1, EpsDen>>

\* a > eps, for a = n/d with d > 0: n*EpsDen > d
GtEps(a) == a[1] > 0 /\ (a[2] \div a[1]) < EpsDen

\* a < 1.0 - eps, that is 1 - a > eps
LtOneMinusEps(a) == GtEps(RSub(ROne, a))

\* torch.maximum(a, eps)
MaxEps(a) == IF GtEps(a) THEN a ELSE Eps

(***************************************************************************)
(* Configuration of the encoder: self.pc_range, self.final_dim (ogfH,      *)
(* ogfW) and, for VoxFormerEncoder_DFA3D, self.d_bound (dNear, dFar).      *)
(***************************************************************************)
PcRange == IntVec(<<0, -2, 0, 4, 2, 2>>)
FinalDim == IntVec(<<2, 4>>)
DBound == IntVec(<<2, 58>>)

\* lines 112-117: the in-place rescaling of reference_points into pc_range
DenormPoint(p, r) ==
    << RAdd(RMul(p[1], RSub(r[4], r[1])), r[1]),
       RAdd(RMul(p[2], RSub(r[5], r[2])), r[2]),
       RAdd(RMul(p[3], RSub(r[6], r[3])), r[3]) >>

Denormalize(ref, r) ==
    Eager([b \in DOMAIN ref |-> Eager([d \in DOMAIN ref[b] |-> Eager([q \in DOMAIN ref[b][d] |->
        DenormPoint(ref[b][d][q], r)])])])

\* lines 127-133: the inverse of the batch augmentation, homogenised when 4x4
ApplyInvBda(p, invBda) ==
    IF Len(invBda) = 4
    THEN SubSeq(MatVec(invBda, p \o <<ROne>>), 1, 3)
    ELSE MatVec(invBda, p)

\* lines 135-137: ego -> camera frame
ToCamera(p, trans, invRot) == MatVec(invRot, VecSub(p, trans))

\* lines 139-143: the intrinsic projection, homogenised when 4x4
ApplyIntrins(p, intrins) ==
    IF Len(intrins) = 4
    THEN MatVec(intrins, p \o <<ROne>>)
    ELSE MatVec(intrins, p)

\* reference_points_cam of one point before the perspective divide
CamHomog(p, invBda, trans, invRot, intrins) ==
    ApplyIntrins(ToCamera(ApplyInvBda(p, invBda), trans, invRot), intrins)

\* post_rots[:, :, :2, :2] @ xy + post_trans[:, :, :2]
PostTransform(xy, post_rot, post_trans) ==
    VecAdd(MatVec(<<SubSeq(post_rot[1], 1, 2), SubSeq(post_rot[2], 1, 2)>>, xy),
           SubSeq(post_trans, 1, 2))

\* the mask without its depth test
VolumeMask_NoDepthGate(points_d, xy) ==
    /\ GtEps(xy[1]) /\ LtOneMinusEps(xy[1])
    /\ GtEps(xy[2]) /\ LtOneMinusEps(xy[2])

\* lines 156-162 and 322-328: points_d is what the name points_d reads when
\* the mask is computed, xy the first two channels of reference_points_cam
VolumeMask(points_d, xy) ==
    /\ GtEps(points_d)
    /\ GtEps(xy[1]) /\ LtOneMinusEps(xy[1])
    /\ GtEps(xy[2]) /\ LtOneMinusEps(xy[2])

\* lines 145-148 and 311-313: x and y divided by max(depth, eps); the third
\* channel of t keeps the depth
DivideByDepth(t) ==
    [t EXCEPT ![1] = RDiv(t[1], MaxEps(t[3])), ![2] = RDiv(t[2], MaxEps(t[3]))]

\* lines 150-151 and 314-315: the image augmentation on the first two channels
PostAugment(t, post_rot, post_trans) ==
    [t EXCEPT ![1] = PostTransform(<<t[1], t[2]>>, post_rot, post_trans)[1],
              ![2] = PostTransform(<<t[1], t[2]>>, post_rot, post_trans)[2]]

\* lines 154-155 and 317-318: division by the image width and height
NormalizeXY(t) ==
    [t EXCEPT ![1] = RDiv(t[1], FinalDim[2]), ![2] = RDiv(t[2], FinalDim[1])]

\* line 319: channel 2 overwritten in place by (d - dNear) / (dFar - dNear)
NormalizeDepth(t) ==
    [t EXCEPT ![3] = RDiv(RSub(t[3], DBound[1]), RSub(DBound[2], DBound[1]))]

\* VoxFormerEncoder.point_sampling, lines 156-166: h is the intrinsic product,
\* t the tensor after line 155.  points_d was taken from h (line 145) and
\* line 146 bound reference_points_cam to a new tensor, so points_d keeps
\* the projected depth.  depth records h[3], which the code does not return.
ReturnBase(h, t) ==
    [cam |-> <<t[1], t[2]>>, mask |-> VolumeMask(h[3], <<t[1], t[2]>>), depth |-> h[3]]

\* VoxFormerEncoder_DFA3D.point_sampling, lines 322-332: every statement of
\* lines 311-319 assigned into the storage of reference_points_cam, and
\* points_d is a view of channel 2 of that storage (line 308), so at line 322
\* it reads what the storage t holds after line 319.
ReturnDFA3D(h, t) ==
    [cam |-> SubSeq(t, 1, 3), mask |-> VolumeMask(t[3], <<t[1], t[2]>>), depth |-> h[3]]

\* VoxFormerEncoder.point_sampling, one point: lines 145-162
ProjectPointBase(h, post_rot, post_trans) ==
    ReturnBase(h, NormalizeXY(PostAugment(DivideByDepth(h), post_rot, post_trans)))

\* VoxFormerEncoder_DFA3D.point_sampling, one point: lines 308-328
ProjectPointDFA3D(h, post_rot, post_trans) ==
    ReturnDFA3D(h, NormalizeDepth(NormalizeXY(
                       PostAugment(DivideByDepth(h), post_rot, post_trans))))

ProjectPoint(variant, h, post_rot, post_trans) ==
    IF variant = "DFA3D" THEN ProjectPointDFA3D(h, post_rot, post_trans)
    ELSE ProjectPointBase(h, post_rot, post_trans)

\* the projection of every point of the rescaled tensor rp, [cam][b][q][d]
ProjectAll(variant, rp, cp) ==
    Eager([c \in DOMAIN cp.trans[1] |-> Eager([b \in DOMAIN cp.trans |->
        Eager([q \in DOMAIN rp[b][1] |-> Eager([d \in DOMAIN rp[b] |->
            ProjectPoint(variant,
                         CamHomog(rp[b][d][q], Inverse(cp.bda[b]), cp.trans[b][c],
                                  Inverse(cp.rots[b][c]), cp.intrins[b][c]),
                         cp.post_rots[b][c], cp.post_trans[b][c])])])])])

\* one field of every entry of pts
Channel(pts, f) ==
    [c \in DOMAIN pts |-> [b \in DOMAIN pts[c] |-> [q \in DOMAIN pts[c][b] |->
        [d \in DOMAIN pts[c][b][q] |-> pts[c][b][q][d][f]]]]]

\* lines 164-166: the returned tensors in [num_cam][B][num_query][D] layout
\* (permute(2, 1, 3, 0, 4)); ref is what the caller's tensor holds afterwards
PointSamplingReturn(rp, pts) ==
    [ref |-> rp, depth |-> Channel(pts, "depth"), cam |-> Channel(pts, "cam"),
     mask |-> Channel(pts, "mask")]

PointSamplingFrom(variant, rp, cp) == PointSamplingReturn(rp, ProjectAll(variant, rp, cp))

\* point_sampling on a tensor holding `ref`, rescaled in place by lines 112-117
PointSampling(variant, ref, cp) == PointSamplingFrom(variant, Denormalize(ref, PcRange), cp)

(***************************************************************************)
(* Camera parameters the projection is exercised on.  With RotFwd the      *)
(* camera looks along ego x: depth = x - tx, and with Intr3/Intr4 the      *)
(* pixel is (xc/d + 2, yc/d + 1) in an image FinalDim = (2, 4).            *)
(***************************************************************************)
Id3 == IntMat(<< <<1, 0, 0>>, <<0, 1, 0>>, <<0, 0, 1>> >>)
RotFwd == IntMat(<< <<0, 0, 1>>, <<-1, 0, 0>>, <<0, -1, 0>> >>)
Intr3 == IntMat(<< <<1, 0, 2>>, <<0, 1, 1>>, <<0, 0, 1>> >>)
Intr4 == IntMat(<< <<1, 0, 2, 0>>, <<0, 1, 1, 0>>, <<0, 0, 1, 0>>, <<0, 0, 0, 1>> >>)
PostHalf == << <<Half, RZero, RZero>>, <<RZero, Half, RZero>>, <<RZero, RZero, ROne>> >>
\* a 4x4 augmentation: scale x by 2, shift x by 1
Bda4 == IntMat(<< <<2, 0, 0, 1>>, <<0, 1, 0, 0>>, <<0, 0, 1, 0>>, <<0, 0, 0, 1>> >>)

Cam(rot, trans, post_rot, post_trans) ==
    [rot |-> rot, trans |-> trans, post_rot |-> post_rot, post_trans |-> post_trans]

FwdCam(trans) == Cam(RotFwd, trans, Id3, IntVec(<<0, 0, 0>>))

\* in front of the camera, inside the image; behind or at the camera
FrontRig == << FwdCam(IntVec(<<0, 0, 1>>)), FwdCam(IntVec(<<2, 0, 1>>)) >>

Rigs ==
    { FrontRig,
      \* depth 1/200000 with the pixel inside the image; pixel x exactly 1
      << FwdCam(<<Rat(399999, 200000), Rat(1, 100000), ROne>>),
         FwdCam(IntVec(<<1, 2, 1>>)) >>,
      \* depth 0 with the pixel inside the image; pixel x exactly 0
      << FwdCam(<<RInt(2), Rat(1, 50000), Rat(100001, 100000)>>),
         FwdCam(IntVec(<<1, -2, 1>>)) >>,
      \* pixel x outside the image, pixel y exactly 1
      << FwdCam(IntVec(<<1, 4, 1>>)), FwdCam(IntVec(<<1, 0, 2>>)) >>,
      \* pixel x = 1/200000, inside (0, 1) but not above eps; far points
      << FwdCam(<<ROne, Rat(-99999, 50000), ROne>>), FwdCam(IntVec(<<-8, 0, 1>>)) >>,
      \* a camera looking up, with an image resize; a single camera
      << Cam(Id3, IntVec(<<2, 0, -1>>), PostHalf, <<ROne, Half, RZero>>) >> }

MkCamParams(rig, intrins, bda, B) ==
    [rots       |-> [b \in 1..B |-> [c \in DOMAIN rig |-> rig[c].rot]],
     trans      |-> [b \in 1..B |-> [c \in DOMAIN rig |-> rig[c].trans]],
     intrins    |-> [b \in 1..B |-> [c \in DOMAIN rig |-> intrins]],
     post_rots  |-> [b \in 1..B |-> [c \in DOMAIN rig |-> rig[c].post_rot]],
     post_trans |-> [b \in 1..B |-> [c \in DOMAIN rig |-> rig[c].post_trans]],
     bda        |-> [b \in 1..B |-> bda]]

\* every rig with 3x3 intrinsics and a 3x3 augmentation, and the 4x4 branches
\* of lines 127 and 139 on the first rig
CamParamChoices(B) ==
    {MkCamParams(rig, Intr3, Id3, B) : rig \in Rigs}
    \cup {MkCamParams(FrontRig, Intr4, Bda4, B),
          MkCamParams(FrontRig, Intr4, Id3, B),
          MkCamParams(FrontRig, Intr3, Bda4, B)}

(***************************************************************************)
(* The projection as a function of its inputs: each variant is applied to  *)
(* a tensor holding the same generated reference points.                   *)
(***************************************************************************)
\* one row of queries; more than one batch item with a single query
PsGrids == {g \in Grids : g.H = 1 /\ (g.bs = 1 \/ g.W = 1)}

PsInit ==
    /\ pc = "ps_ready"
    /\ grid \in PsGrids
    /\ ref_in = get_reference_points_3d(grid.H, grid.W, grid.Z, grid.D, grid.bs)
    /\ ref_3d = ref_in
    /\ ref_2d = NoTensor
    /\ cam_params \in CamParamChoices(grid.bs)
    /\ ps_out = [base |-> NoTensor, DFA3D |-> NoTensor]
    /\ layer_cfg = NoTensor /\ layer = NoTensor /\ call_args = NoTensor /\ fwd = NoTensor
    /\ encoder = NoTensor /\ enc = NoTensor /\ ref_obj = 0 /\ calls = <<>>

PointSamplingBase ==
    /\ pc = "ps_ready"
    /\ ps_out.base = NoTensor
    /\ ps_out' = [ps_out EXCEPT !.base = PointSampling("base", ref_in, cam_params)]
    /\ ref_3d' = ps_out'.base.ref
    /\ UNCHANGED <<pc, grid, ref_2d, ref_in, cam_params, layerVars, encVars>>

PointSamplingDFA3D ==
    /\ pc = "ps_ready"
    /\ ps_out.DFA3D = NoTensor
    /\ ps_out' = [ps_out EXCEPT !.DFA3D = PointSampling("DFA3D", ref_in, cam_params)]
    /\ ref_3d' = ps_out'.DFA3D.ref
    /\ UNCHANGED <<pc, grid, ref_2d, ref_in, cam_params, layerVars, encVars>>

PsNext == PointSamplingBase \/ PointSamplingDFA3D

SpecPS == PsInit /\ [][PsNext]_vars

\* the entries of a returned [num_cam][B][num_query][D] tensor
Entries(t) ==
    {<<c, b, q, d>> \in (DOMAIN t) \X (1..grid.bs) \X (1..(grid.H * grid.W)) \X (1..grid.D) :
        TRUE}

Variants == {"base", "DFA3D"}

Computed(v) == pc = "ps_ready" /\ ps_out[v] # NoTensor

\* the elementwise test of the spec: d > eps, eps < x < 1-eps, eps < y < 1-eps
Visible(depth, xy) ==
    /\ GtEps(depth)
    /\ GtEps(xy[1]) /\ LtOneMinusEps(xy[1])
    /\ GtEps(xy[2]) /\ LtOneMinusEps(xy[2])

(***************************************************************************)
(* C1: for both projector variants the returned mask entry is TRUE iff the *)
(* projected depth d (before any depth normalisation) satisfies d > eps    *)
(* and the normalised pixel satisfies eps < x < 1-eps and eps < y < 1-eps. *)
(***************************************************************************)
C1_MaskIffVisible ==
    \A v \in Variants :
        Computed(v) =>
            \A e \in Entries(ps_out[v].mask) :
                ps_out[v].mask[e[1]][e[2]][e[3]][e[4]]
                    <=> Visible(ps_out[v].depth[e[1]][e[2]][e[3]][e[4]],
                                ps_out[v].cam[e[1]][e[2]][e[3]][e[4]])

RLeEps(a) == ~GtEps(a)
RLeZero(a) == a[1] <= 0
RGeOne(a) == a[1] >= a[2]

C7_VariantsDifferOnlyInDepthChannel ==
    (Computed("base") /\ Computed("DFA3D")) =>
        /\ ps_out.DFA3D.mask = ps_out.base.mask
        /\ \A e \in Entries(ps_out.base.cam) :
            LET a == ps_out.base.cam[e[1]][e[2]][e[3]][e[4]]
                b == ps_out.DFA3D.cam[e[1]][e[2]][e[3]][e[4]]
                dp == ps_out.base.depth[e[1]][e[2]][e[3]][e[4]]
            IN  /\ Len(a) = 2 /\ Len(b) = 3
                /\ b[1] = a[1] /\ b[2] = a[2]
                /\ b[3] = RDiv(RSub(dp, DBound[1]), RSub(DBound[2], DBound[1]))

(***************************************************************************)
(* VoxFormerLayer.  The attention, normalisation and feed-forward          *)
(* sub-modules are external: applying one yields a term that records the   *)
(* module and every argument it was given.                                 *)
(***************************************************************************)
None == <<>>

OpTags == {"self_attn", "norm", "cross_attn", "ffn"}

StandardOrder == <<"self_attn", "norm", "cross_attn", "norm", "ffn", "norm">>

RECURSIVE Count(_, _)
Count(order, tags) ==
    IF order = <<>> THEN 0
    ELSE (IF Head(order) \in tags THEN 1 ELSE 0) + Count(Tail(order), tags)

ConfigurationError == [error |-> "ConfigurationError"]

IsError(x) == DOMAIN x = {"error"}

\* the construction that accepts any sub-module counts
MyCustomBaseTransformerLayer_init_Unchecked(operation_order, n_attn, n_norm, n_ffn, pre_norm) ==
    [operation_order |-> operation_order,
     num_attn   |-> Count(operation_order, {"self_attn", "cross_attn"}),
     attentions |-> [i \in 1..n_attn |-> i],
     norms      |-> [i \in 1..n_norm |-> i],
     ffns       |-> [i \in 1..n_ffn |-> i],
     pre_norm   |-> pre_norm]

\* MyCustomBaseTransformerLayer.__init__ (custom_base_transformer_layer.py):
\* the count contract of the operation order, checked at construction
MyCustomBaseTransformerLayer_init(operation_order, n_attn, n_norm, n_ffn, pre_norm) ==
    IF \/ Count(operation_order, {"self_attn", "cross_attn"}) # n_attn
       \/ Count(operation_order, {"norm"}) # n_norm
    THEN ConfigurationError
    ELSE MyCustomBaseTransformerLayer_init_Unchecked(operation_order, n_attn, n_norm,
                                                     n_ffn, pre_norm)

\* VoxFormerLayer.__init__: delegates to the base class; an exception of the
\* base constructor propagates
VoxFormerLayer_init(operation_order, n_attn, n_norm, n_ffn, pre_norm) ==
    LET base == MyCustomBaseTransformerLayer_init(operation_order, n_attn, n_norm, n_ffn,
                                                  pre_norm)
    IN  IF IsError(base) THEN base
        ELSE [layer |-> base, fp16_enabled |-> FALSE]

(***************************************************************************)
(* VoxFormerLayer.forward, lines 430-498.  A pass is a record st:          *)
(*   status       "running", "returned" or "raised"                        *)
(*   pos          number of entries of operation_order already executed    *)
(*   query, identity, norm_index, attn_index, ffn_index, attn_masks        *)
(*   warnings     number of warnings issued                                *)
(*   log          one record per executed operation                        *)
(***************************************************************************)
\* the attention-mask list without the length assertion of lines 443-446
AttnMaskList_NoLengthCheck(L, a) ==
    IF a.attn_masks.kind = "none"
    THEN [status |-> "ok", warnings |-> 0, masks |-> [i \in 1..L.num_attn |-> None]]
    ELSE IF a.attn_masks.kind = "tensor"
    THEN [status |-> "ok", warnings |-> 1,
          masks |-> [i \in 1..L.num_attn |-> [obj |-> i, val |-> a.attn_masks.val.val]]]
    ELSE [status |-> "ok", warnings |-> 0, masks |-> a.attn_masks.val]

\* lines 434-446: the attention-mask list
AttnMaskList(L, a) ==
    IF a.attn_masks.kind = "none"
    THEN [status |-> "ok", warnings |-> 0, masks |-> [i \in 1..L.num_attn |-> None]]
    ELSE IF a.attn_masks.kind = "tensor"
    THEN [status |-> "ok", warnings |-> 1,
          \* copy.deepcopy: a new object per slot holding the same values
          masks |-> [i \in 1..L.num_attn |-> [obj |-> i, val |-> a.attn_masks.val.val]]]
    ELSE IF Len(a.attn_masks.val) = L.num_attn
    THEN [status |-> "ok", warnings |-> 0, masks |-> a.attn_masks.val]
    ELSE [status |-> "AssertionError", warnings |-> 0, masks |-> a.attn_masks.val]

\* lines 430-446
LayerBegin(L, a) ==
    LET m == AttnMaskList(L, a)
    IN  [status     |-> IF m.status = "ok" THEN "running" ELSE "raised",
         error      |-> IF m.status = "ok" THEN "" ELSE m.status,
         pos        |-> 0,
         norm_index |-> 0,
         attn_index |-> 0,
         ffn_index  |-> 0,
         identity   |-> a.query,
         query      |-> a.query,
         attn_masks |-> m.masks,
         warnings   |-> m.warnings,
         log        |-> <<>>]

Raise(st, err) == [st EXCEPT !.status = "raised", !.error = err]

\* what one executed operation leaves in the log
LogEntry(st, op, index, residual, out) ==
    [op |-> op, pos |-> st.pos + 1, index |-> index, query_in |-> st.query,
     identity_before |-> st.identity, residual |-> residual, out |-> out]

\* the residual passed whatever pre_norm is
Residual_Always(L, st) == st.identity

\* `identity if self.pre_norm else None`
Residual(L, st) == IF L.pre_norm THEN st.identity ELSE None

\* lines 450-467
StepSelfAttn(L, a, st) ==
    IF st.attn_index + 1 > Len(L.attentions) \/ st.attn_index + 1 > Len(st.attn_masks)
    THEN Raise(st, "IndexError")
    ELSE
    LET out == [op |-> "self_attn",
                module |-> L.attentions[st.attn_index + 1],
                query |-> st.query,
                key |-> a.prev_bev,
                value |-> a.prev_bev,
                identity |-> Residual(L, st),
                query_pos |-> a.bev_pos,
                key_pos |-> a.bev_pos,
                attn_mask |-> st.attn_masks[st.attn_index + 1],
                key_padding_mask |-> a.query_key_padding_mask,
                reference_points |-> a.ref_2d,
                spatial_shapes |-> << <<a.bev_h, a.bev_w>> >>,
                level_start_index |-> <<0>>,
                kwargs |-> a.kwargs]
    IN  [st EXCEPT !.query = out,
                   !.attn_index = st.attn_index + 1,
                   !.identity = out,
                   !.pos = st.pos + 1,
                   !.log = Append(st.log,
                             LogEntry(st, "self_attn", st.attn_index, Residual(L, st), out))]

\* a norm step that leaves norm_index where it was
StepNorm_NoAdvance(L, a, st) ==
    IF st.norm_index + 1 > Len(L.norms)
    THEN Raise(st, "IndexError")
    ELSE
    LET out == [op |-> "norm", module |-> L.norms[st.norm_index + 1], query |-> st.query]
    IN  [st EXCEPT !.query = out,
                   !.pos = st.pos + 1,
                   !.log = Append(st.log, LogEntry(st, "norm", st.norm_index, None, out))]

\* lines 469-471
StepNorm(L, a, st) ==
    IF st.norm_index + 1 > Len(L.norms)
    THEN Raise(st, "IndexError")
    ELSE
    LET out == [op |-> "norm", module |-> L.norms[st.norm_index + 1], query |-> st.query]
    IN  [st EXCEPT !.query = out,
                   !.norm_index = st.norm_index + 1,
                   !.pos = st.pos + 1,
                   !.log = Append(st.log, LogEntry(st, "norm", st.norm_index, None, out))]

\* lines 474-491
StepCrossAttn(L, a, st) ==
    IF st.attn_index + 1 > Len(L.attentions) \/ st.attn_index + 1 > Len(st.attn_masks)
    THEN Raise(st, "IndexError")
    ELSE
    LET out == [op |-> "cross_attn",
                module |-> L.attentions[st.attn_index + 1],
                query |-> st.query,
                key |-> a.key,
                value |-> a.value,
                identity |-> Residual(L, st),
                query_pos |-> a.query_pos,
                key_pos |-> a.key_pos,
                reference_points |-> a.ref_3d,
                reference_points_cam |-> a.reference_points_cam,
                mask |-> a.mask,
                attn_mask |-> st.attn_masks[st.attn_index + 1],
                key_padding_mask |-> a.key_padding_mask,
                spatial_shapes |-> a.spatial_shapes,
                level_start_index |-> a.level_start_index,
                kwargs |-> a.kwargs]
    IN  [st EXCEPT !.query = out,
                   !.attn_index = st.attn_index + 1,
                   !.identity = out,
                   !.pos = st.pos + 1,
                   !.log = Append(st.log,
                             LogEntry(st, "cross_attn", st.attn_index, Residual(L, st), out))]

\* lines 493-496
StepFfn(L, a, st) ==
    IF st.ffn_index + 1 > Len(L.ffns)
    THEN Raise(st, "IndexError")
    ELSE
    LET out == [op |-> "ffn", module |-> L.ffns[st.ffn_index + 1], query |-> st.query,
                identity |-> Residual(L, st)]
    IN  [st EXCEPT !.query = out,
                   !.ffn_index = st.ffn_index + 1,
                   !.pos = st.pos + 1,
                   !.log = Append(st.log,
                             LogEntry(st, "ffn", st.ffn_index, Residual(L, st), out))]

\* one iteration of `for layer in self.operation_order`
LayerStep(L, a, st) ==
    LET op == L.operation_order[st.pos + 1]
    IN  IF op = "self_attn" THEN StepSelfAttn(L, a, st)
        ELSE IF op = "norm" THEN StepNorm(L, a, st)
        ELSE IF op = "cross_attn" THEN StepCrossAttn(L, a, st)
        ELSE StepFfn(L, a, st)

\* line 498
LayerReturn(st) == [st EXCEPT !.status = "returned"]

\* the whole pass, from the state st on
RECURSIVE LayerRun(_, _, _)
LayerRun(L, a, st) ==
    IF st.status # "running" THEN st
    ELSE IF st.pos = Len(L.operation_order) THEN LayerReturn(st)
    ELSE LayerRun(L, a, LayerStep(L, a, st))

\* VoxFormerLayer.forward
VoxFormerLayer_forward(L, a) == LayerRun(L, a, LayerBegin(L, a))

(***************************************************************************)
(* A layer on its own: construction, then forward passes executed one      *)
(* operation at a time.                                                    *)
(***************************************************************************)
Orders ==
    UNION {[1..n -> OpTags] : n \in 0..MaxOps}
    \cup {StandardOrder, <<"self_attn", "norm", "cross_attn", "norm", "ffn">>}

LayerConfigs ==
    [operation_order : Orders, n_attn : 0..MaxOps, n_norm : 0..MaxOps, n_ffn : 0..MaxFfn,
     pre_norm : BOOLEAN]

Tensor(obj, val) == [obj |-> obj, val |-> val]

AttnMaskChoices ==
    {[kind |-> "none", val |-> None], [kind |-> "tensor", val |-> Tensor(0, 7)]}
    \cup {[kind |-> "list", val |-> [i \in 1..n |-> Tensor(10 + i, i)]] : n \in 0..MaxOps}

LayerArgs(prev_bev, attn_masks) ==
    [query |-> <<"bev_query">>, key |-> <<"key">>, value |-> <<"value">>,
     bev_pos |-> <<"bev_pos">>, query_pos |-> None, key_pos |-> None,
     attn_masks |-> attn_masks, query_key_padding_mask |-> None, key_padding_mask |-> None,
     ref_2d |-> <<"ref_2d">>, ref_3d |-> <<"ref_3d">>, bev_h |-> 1, bev_w |-> 1,
     reference_points_cam |-> <<"reference_points_cam">>, mask |-> None,
     spatial_shapes |-> <<"spatial_shapes">>, level_start_index |-> <<"level_start_index">>,
     prev_bev |-> prev_bev, kwargs |-> [bev_mask |-> <<"bev_mask">>]]

LayerArgChoices ==
    {LayerArgs(p, m) : p \in {None, <<"prev_bev">>}, m \in AttnMaskChoices}

LayerInit ==
    /\ pc = "layer_new"
    /\ layer_cfg \in LayerConfigs
    /\ layer = None /\ call_args = None /\ fwd = None
    /\ grid = NoTensor /\ ref_3d = NoTensor /\ ref_2d = NoTensor /\ ref_in = NoTensor
    /\ cam_params = NoTensor /\ ps_out = NoTensor
    /\ encoder = NoTensor /\ enc = NoTensor /\ ref_obj = 0 /\ calls = <<>>

Construct ==
    /\ pc = "layer_new"
    /\ layer' = VoxFormerLayer_init(layer_cfg.operation_order, layer_cfg.n_attn,
                                    layer_cfg.n_norm, layer_cfg.n_ffn, layer_cfg.pre_norm)
    /\ pc' = IF IsError(layer') THEN "config_error" ELSE "constructed"
    /\ UNCHANGED <<layer_cfg, call_args, fwd, psVars, encVars>>

ForwardCall ==
    /\ pc = "constructed"
    /\ \E a \in LayerArgChoices :
        /\ call_args' = a
        /\ fwd' = LayerBegin(layer.layer, a)
    /\ pc' = IF fwd'.status = "raised" THEN "constructed" ELSE "in_forward"
    /\ UNCHANGED <<layer_cfg, layer, psVars, encVars>>

\* the next entry of operation_order, when it is `op`
Operation(op) ==
    /\ pc = "in_forward"
    /\ fwd.status = "running"
    /\ fwd.pos < Len(layer.layer.operation_order)
    /\ layer.layer.operation_order[fwd.pos + 1] = op
    /\ fwd' = LayerStep(layer.layer, call_args, fwd)
    /\ pc' = IF fwd'.status = "raised" THEN "constructed" ELSE "in_forward"
    /\ UNCHANGED <<layer_cfg, layer, call_args, psVars, encVars>>

OpSelfAttn == Operation("self_attn")
OpNorm == Operation("norm")
OpCrossAttn == Operation("cross_attn")
OpFfn == Operation("ffn")

ForwardReturn ==
    /\ pc = "in_forward"
    /\ fwd.status = "running"
    /\ fwd.pos = Len(layer.layer.operation_order)
    /\ fwd' = LayerReturn(fwd)
    /\ pc' = "constructed"
    /\ UNCHANGED <<layer_cfg, layer, call_args, psVars, encVars>>

LayerNext ==
    \/ Construct
    \/ ForwardCall
    \/ OpSelfAttn
    \/ OpNorm
    \/ OpCrossAttn
    \/ OpFfn
    \/ ForwardReturn

SpecLayer == LayerInit /\ [][LayerNext]_vars

CountsMatch(cfg) ==
    /\ Count(cfg.operation_order, {"self_attn", "cross_attn"}) = cfg.n_attn
    /\ Count(cfg.operation_order, {"norm"}) = cfg.n_norm

(***************************************************************************)
(* C8: constructing a layer whose operation order has a number of          *)
(* self_attn+cross_attn entries different from the number of attention     *)
(* sub-modules, or a number of norm entries different from the number of   *)
(* normalisation sub-modules, fails at construction, so no forward pass    *)
(* runs on a mismatched layer; (self_attn, norm, cross_attn, norm, ffn,    *)
(* norm) with 2 attentions, 3 norms and 1 ffn constructs without error.    *)
(***************************************************************************)
C8_CountContractAtConstruction ==
    /\ (pc # "layer_new" /\ ~CountsMatch(layer_cfg)) => (pc = "config_error" /\ fwd = None)
    /\ fwd # None => CountsMatch(layer_cfg)
    /\ (/\ pc # "layer_new"
        /\ layer_cfg.operation_order = StandardOrder
        /\ layer_cfg.n_attn = 2 /\ layer_cfg.n_norm = 3 /\ layer_cfg.n_ffn = 1)
       => pc # "config_error"

\* the standard order with one norm entry removed, 2 attentions, 3 norms, 1 ffn
C8_Witness ==
    /\ pc = "config_error"
    /\ layer = ConfigurationError
    /\ layer_cfg.operation_order = <<"self_attn", "norm", "cross_attn", "norm", "ffn">>
    /\ layer_cfg.n_attn = 2 /\ layer_cfg.n_norm = 3 /\ layer_cfg.n_ffn = 1

AttnOps == {"self_attn", "cross_attn"}

\* identity and query right after the i-th executed operation of the pass
IdentityAfter(i) == IF i < Len(fwd.log) THEN fwd.log[i + 1].identity_before ELSE fwd.identity
QueryAfter(i) == IF i < Len(fwd.log) THEN fwd.log[i + 1].query_in ELSE fwd.query

\* the output of the most recent attention before the i-th operation
LastAttnOut(i) ==
    LET S == {j \in 1..(i - 1) : fwd.log[j].op \in AttnOps}
    IN  IF S = {} THEN call_args.query
        ELSE fwd.log[CHOOSE j \in S : \A k \in S : k <= j].out

(***************************************************************************)
(* C10: during one pass identity starts as the input query; after each     *)
(* self_attn or cross_attn it equals the query that operation produced; a  *)
(* norm or ffn replaces query but leaves identity unchanged; hence at      *)
(* every ffn identity is the output of the most recent attention (or the   *)
(* input query), and it is passed as the residual only when pre_norm is    *)
(* set (None otherwise).                                                   *)
(***************************************************************************)
C10_IdentityTracking ==
    fwd # None =>
        /\ (fwd.log = <<>>) => fwd.identity = call_args.query
        /\ fwd.log # <<>> => fwd.log[1].identity_before = call_args.query
        /\ \A i \in 1..Len(fwd.log) :
            LET e == fwd.log[i]
            IN  /\ QueryAfter(i) = e.out
                /\ e.op \in AttnOps => IdentityAfter(i) = e.out
                /\ e.op \in {"norm", "ffn"} =>
                    /\ IdentityAfter(i) = e.identity_before
                    /\ e.out.query = e.query_in
                /\ e.op = "ffn" =>
                    /\ e.identity_before = LastAttnOut(i)
                    /\ e.out.identity = IF layer.layer.pre_norm THEN LastAttnOut(i) ELSE None

\* a finished pass with pre_norm set in which an ffn after an attention and a
\* norm was given the attention's output as residual, and a pass without
\* pre_norm is covered by the same formula
C10_Witness ==
    /\ fwd # None
    /\ fwd.status = "returned"
    /\ layer.layer.pre_norm
    /\ \E i \in 1..Len(fwd.log) :
        /\ i >= 3
        /\ fwd.log[i].op = "ffn"
        /\ fwd.log[i - 1].op = "norm"
        /\ fwd.log[i - 2].op \in AttnOps
        /\ fwd.log[i].out.identity = fwd.log[i - 2].out
        /\ fwd.identity = fwd.log[i - 2].out

\* the executed attention operations of the pass, as positions of its log
AttnEntries == {i \in 1..Len(fwd.log) : fwd.log[i].op \in AttnOps}

(***************************************************************************)
(* C11: in VoxFormerLayer.forward the attention-mask list used by the      *)
(* operations always has exactly num_attn entries: with attn_masks None    *)
(* every slot is None; with a single tensor every slot gets an independent *)
(* copy equal to that tensor and a warning is issued without aborting the  *)
(* pass; with a list whose length differs from num_attn the call fails     *)
(* before any operation of the order is executed.                          *)
(***************************************************************************)
C11_AttnMaskList ==
    fwd # None =>
        LET n == layer.layer.num_attn
            given == call_args.attn_masks
            masks == fwd.attn_masks
        IN  /\ fwd.error # "AssertionError" =>
                /\ Len(masks) = n
                /\ \A i \in AttnEntries :
                    fwd.log[i].out.attn_mask = masks[fwd.log[i].index + 1]
            /\ given.kind = "none" =>
                /\ fwd.error # "AssertionError"
                /\ \A i \in 1..n : masks[i] = None
                /\ fwd.warnings = 0
            /\ given.kind = "tensor" =>
                /\ fwd.error # "AssertionError"
                /\ fwd.warnings = 1
                /\ \A i \in 1..n :
                    /\ masks[i].val = given.val.val
                    /\ masks[i].obj # given.val.obj
                    /\ \A j \in 1..n : i # j => masks[i].obj # masks[j].obj
            /\ (given.kind = "list" /\ Len(given.val) = n) =>
                /\ fwd.error # "AssertionError"
                /\ masks = given.val
                /\ fwd.warnings = 0
            /\ (given.kind = "list" /\ Len(given.val) # n) =>
                /\ fwd.status = "raised"
                /\ fwd.error = "AssertionError"
                /\ fwd.pos = 0
                /\ fwd.log = <<>>

\* a returned pass over two attentions that was given one tensor as attn_masks:
\* both attentions ran, each with its own copy, after one warning
C11_Witness ==
    /\ fwd # None
    /\ fwd.status = "returned"
    /\ call_args.attn_masks.kind = "tensor"
    /\ layer.layer.num_attn = 2
    /\ fwd.warnings = 1
    /\ \E i, j \in AttnEntries :
        /\ i < j
        /\ fwd.log[i].out.attn_mask.val = call_args.attn_masks.val.val
        /\ fwd.log[j].out.attn_mask.val = call_args.attn_masks.val.val
        /\ fwd.log[i].out.attn_mask.obj # fwd.log[j].out.attn_mask.obj

\* the tags that share a running index with `op`
IndexGroup(op) == IF op \in AttnOps THEN AttnOps ELSE {op}

\* how many of the first i executed operations advance the index that the
\* i-th one uses
Ordinal(i) ==
    Cardinality({j \in 1..i : fwd.log[j].op \in IndexGroup(fwd.log[i].op)})

\* the sub-module list the operation `op` indexes
SubModules(L, op) ==
    IF op \in AttnOps THEN L.attentions ELSE IF op = "norm" THEN L.norms ELSE L.ffns

\* the executed operations of the pass that applied sub-module m of the list of `op`
Applications(L, op, m) ==
    {i \in 1..Len(fwd.log) :
        fwd.log[i].op \in IndexGroup(op) /\ fwd.log[i].out.module = SubModules(L, op)[m]}

BevGrid2D == 512

\* tensor.permute(1, 0, 2) of a [n][m] tensor of feature vectors
Permute102(t) == Eager([j \in 1..Len(t[1]) |-> Eager([i \in 1..Len(t) |-> t[i][j]])])

\* torch.stack(intermediate)
Stack(items) == [stacked |-> items]

\* self.layers: num_layers layers of the standard operation order, each with
\* its own sub-modules
EncoderLayers(num_layers) ==
    [i \in 1..num_layers |->
        LET L == VoxFormerLayer_init(StandardOrder, 2, 3, 1, FALSE).layer
        IN  [L EXCEPT !.attentions = [k \in DOMAIN @ |-> 100 * i + @[k]],
                      !.norms = [k \in DOMAIN @ |-> 100 * i + @[k]],
                      !.ffns = [k \in DOMAIN @ |-> 100 * i + @[k]]]]

\* VoxFormerEncoder.__init__ / VoxFormerEncoder_DFA3D.__init__
Encoder_init(variant, return_intermediate, num_layers) ==
    [variant |-> variant,
     return_intermediate |-> return_intermediate,
     layers |-> EncoderLayers(num_layers)]

\* lines 204-213: the locals of forward before the projection
EncBegin(inp, obj) ==
    LET bs == Len(inp.bev_query[1])
        \* get_reference_points(512, 512, dim='2d', bs=bev_query.size(1)), kept as
        \* its arguments: the tensor has 512*512 points per batch item
        r2d == [H |-> BevGrid2D, W |-> BevGrid2D, dim |-> "2d", bs |-> bs]
    IN  [inputs |-> inp,
         ref_obj |-> obj,
         output |-> inp.bev_query,
         intermediate |-> <<>>,
         hybird_ref_2d |-> [stack |-> <<r2d, r2d>>,
                            shape |-> <<bs * 2, BevGrid2D * BevGrid2D, 1, 2>>],
         bev_query |-> inp.bev_query,
         bev_pos |-> inp.bev_pos,
         reference_points_cam |-> None,
         bev_mask |-> None,
         projections |-> <<>>,
         lid |-> 0,
         layer_log |-> <<>>,
         returned |-> FALSE,
         ret |-> None]

\* lines 216-217, given what point_sampling returned
EncProjected(e, r) ==
    [e EXCEPT !.reference_points_cam = r.cam,
              !.bev_mask = r.mask,
              !.projections = Append(@, [cam |-> r.cam, mask |-> r.mask, at_lid |-> e.lid])]

\* lines 220-222
EncPermute(e) ==
    [e EXCEPT !.bev_query = Permute102(@),
              !.bev_pos = IF @ # None THEN Permute102(@) ELSE @]

\* the keyword arguments of the layer call, lines 225-240
EncLayerArgs(e, ref) ==
    [query |-> e.bev_query, key |-> e.inputs.key, value |-> e.inputs.value,
     bev_pos |-> e.bev_pos, query_pos |-> None, key_pos |-> None,
     attn_masks |-> [kind |-> "none", val |-> None],
     query_key_padding_mask |-> None, key_padding_mask |-> None,
     ref_2d |-> e.hybird_ref_2d, ref_3d |-> ref,
     bev_h |-> e.inputs.bev_h, bev_w |-> e.inputs.bev_w,
     reference_points_cam |-> e.reference_points_cam, mask |-> None,
     spatial_shapes |-> e.inputs.spatial_shapes,
     level_start_index |-> e.inputs.level_start_index,
     prev_bev |-> e.inputs.prev_bev,
     kwargs |-> [bev_mask |-> e.bev_mask, img_metas |-> e.inputs.img_metas]]

\* one iteration of the loop that feeds every layer the query permuted at line 220
EncRunLayer_FeedsInput(E, e, ref) ==
    LET a == [EncLayerArgs(e, ref) EXCEPT !.query = Permute102(e.inputs.bev_query)]
        pass == VoxFormerLayer_forward(E.layers[e.lid + 1], a)
    IN  [e EXCEPT !.output = pass.query,
                  !.bev_query = pass.query,
                  !.intermediate = IF E.return_intermediate THEN Append(@, pass.query) ELSE @,
                  !.lid = e.lid + 1,
                  !.layer_log = Append(@, [lid |-> e.lid, args |-> a, pass |-> pass,
                                           output |-> pass.query])]

\* one iteration of the loop that hands the layer no visibility mask
EncRunLayer_DropsMask(E, e, ref) ==
    LET a == [EncLayerArgs(e, ref) EXCEPT !.kwargs.bev_mask = None]
        pass == VoxFormerLayer_forward(E.layers[e.lid + 1], a)
    IN  [e EXCEPT !.output = pass.query,
                  !.bev_query = pass.query,
                  !.intermediate = IF E.return_intermediate THEN Append(@, pass.query) ELSE @,
                  !.lid = e.lid + 1,
                  !.layer_log = Append(@, [lid |-> e.lid, args |-> a, pass |-> pass,
                                           output |-> pass.query])]

\* lines 224-244: one iteration of `for lid, layer in enumerate(self.layers)`
EncRunLayer(E, e, ref) ==
    LET a == EncLayerArgs(e, ref)
        pass == VoxFormerLayer_forward(E.layers[e.lid + 1], a)
    IN  [e EXCEPT !.output = pass.query,
                  !.bev_query = pass.query,
                  !.intermediate = IF E.return_intermediate THEN Append(@, pass.query) ELSE @,
                  !.lid = e.lid + 1,
                  !.layer_log = Append(@, [lid |-> e.lid, args |-> a, pass |-> pass,
                                           output |-> pass.query])]

\* lines 246-249
EncReturn(E, e) ==
    [e EXCEPT !.returned = TRUE,
              !.ret = IF E.return_intermediate THEN Stack(e.intermediate) ELSE e.output]

(***************************************************************************)
(* The encoder and its caller: the caller generates ref_3d with            *)
(* get_reference_points and calls forward, either with a newly generated   *)
(* tensor or with the tensor object of the previous call.                  *)
(***************************************************************************)
\* one row of queries, one height sample; more than one batch item with a single query
\* a single height sample per pillar; one or two queries, one or two batch items
EncGrids == {g \in PsGrids : g.Z = 1 /\ g.D = 1 /\ g.W <= 2 /\ g.bs <= 2}

BevTensor(k, g) == [q \in 1..(g.H * g.W) |-> [b \in 1..g.bs |-> k + 10 * q + b]]

EncInputs(g) ==
    {[bev_query |-> BevTensor(0, g), bev_pos |-> None, prev_bev |-> None,
      key |-> <<"key">>, value |-> <<"value">>, bev_h |-> g.H, bev_w |-> g.W,
      spatial_shapes |-> <<"spatial_shapes">>,
      level_start_index |-> <<"level_start_index">>, img_metas |-> <<"img_metas">>],
     [bev_query |-> BevTensor(500, g), bev_pos |-> BevTensor(900, g),
      prev_bev |-> <<"prev_bev">>,
      key |-> <<"key">>, value |-> <<"value">>, bev_h |-> g.H, bev_w |-> g.W,
      spatial_shapes |-> <<"spatial_shapes">>,
      level_start_index |-> <<"level_start_index">>, img_metas |-> <<"img_metas">>]}

\* the cam_params argument passed along with an input bundle: the 3x3 branches
\* of point_sampling with the first bundle, the 4x4 branches with the second
EncCamParams(inp, B) ==
    IF inp.prev_bev = None THEN MkCamParams(FrontRig, Intr3, Id3, B)
    ELSE MkCamParams(FrontRig, Intr4, Bda4, B)

EncInit ==
    /\ pc = "enc_idle"
    /\ grid \in EncGrids
    /\ ref_3d = get_reference_points_3d(grid.H, grid.W, grid.Z, grid.D, grid.bs)
    /\ ref_obj = 1
    /\ ref_in = ref_3d
    /\ ref_2d = NoTensor
    /\ call_args \in EncInputs(grid)
    /\ cam_params = EncCamParams(call_args, grid.bs)
    /\ ps_out = NoTensor
    /\ layer_cfg = NoTensor /\ layer = NoTensor /\ fwd = NoTensor
    /\ encoder \in {Encoder_init(v, r, n) : v \in Variants, r \in BOOLEAN, n \in 1..MaxLayers}
    /\ enc = None
    /\ calls = <<>>

\* the caller invokes forward; lines 204-213
EncoderForward ==
    /\ pc = "enc_idle"
    /\ Len(calls) < MaxCalls
    /\ \E reuse \in BOOLEAN :
        IF reuse
        THEN UNCHANGED <<ref_3d, ref_obj>>
        ELSE /\ ref_3d' = get_reference_points_3d(grid.H, grid.W, grid.Z, grid.D, grid.bs)
             /\ ref_obj' = ref_obj + 1
    /\ ref_in' = ref_3d'
    /\ enc' = EncBegin(call_args, ref_obj')
    /\ pc' = "enc_project"
    /\ UNCHANGED <<grid, ref_2d, cam_params, ps_out, layerVars, encoder, calls>>

\* lines 216-217: self.point_sampling(ref_3d, ...), which writes into ref_3d
EncoderPointSampling ==
    /\ pc = "enc_project"
    /\ LET r == PointSampling(encoder.variant, ref_3d, cam_params)
       IN  /\ ref_3d' = r.ref
           /\ enc' = EncProjected(enc, r)
    /\ pc' = "enc_permute"
    /\ UNCHANGED <<grid, ref_2d, ref_in, cam_params, ps_out, layerVars, encoder, ref_obj,
                   calls>>

EncoderPermute ==
    /\ pc = "enc_permute"
    /\ enc' = EncPermute(enc)
    /\ pc' = "enc_loop"
    /\ UNCHANGED <<psVars, layerVars, encoder, ref_obj, calls>>

EncoderLayer ==
    /\ pc = "enc_loop"
    /\ enc.lid < Len(encoder.layers)
    /\ enc' = EncRunLayer(encoder, enc, ref_3d)
    /\ UNCHANGED <<pc, psVars, layerVars, encoder, ref_obj, calls>>

EncoderReturn ==
    /\ pc = "enc_loop"
    /\ enc.lid = Len(encoder.layers)
    /\ enc' = EncReturn(encoder, enc)
    /\ calls' = Append(calls, [inputs |-> enc.inputs, ref_obj |-> enc.ref_obj,
                               cam_params |-> cam_params,
                               reference_points_cam |-> enc.reference_points_cam,
                               bev_mask |-> enc.bev_mask,
                               ret |-> enc'.ret])
    /\ pc' = "enc_idle"
    /\ UNCHANGED <<psVars, layerVars, encoder, ref_obj>>

EncNext ==
    \/ EncoderForward
    \/ EncoderPointSampling
    \/ EncoderPermute
    \/ EncoderLayer
    \/ EncoderReturn

SpecEnc == EncInit /\ [][EncNext]_vars

InUnitCube(ref) ==
    \A b \in DOMAIN ref : \A d \in DOMAIN ref[b] : \A q \in DOMAIN ref[b][d] :
        \A k \in 1..3 : ref[b][d][q][k][1] >= 0 /\ ref[b][d][q][k][1] <= ref[b][d][q][k][2]

(***************************************************************************)
(* C2: a call of Encoder.forward (including its call of point_sampling)    *)
(* leaves the caller-supplied ref_3d values unchanged, so the ref_3d       *)
(* handed to every layer's cross_attn is still the normalised [0,1]^3      *)
(* points that were passed in.                                             *)
(***************************************************************************)
C2_Ref3dUnchangedByForward ==
    enc # None =>
        /\ ref_3d = ref_in
        /\ \A i \in DOMAIN enc.layer_log :
            /\ enc.layer_log[i].args.ref_3d = ref_in
            /\ InUnitCube(enc.layer_log[i].args.ref_3d)

(***************************************************************************)
(* C3: any two calls of forward on the same encoder with the same inputs   *)
(* (same bev_query, camera features, ref_3d object, cam_params, prev_bev), *)
(* including two consecutive calls that reuse the same ref_3d tensor,      *)
(* produce identical projected points, visibility masks and outputs.       *)
(***************************************************************************)
C3_ForwardDeterministic ==
    \A i \in DOMAIN calls : \A j \in DOMAIN calls :
        (/\ calls[i].inputs = calls[j].inputs
         /\ calls[i].ref_obj = calls[j].ref_obj
         /\ calls[i].cam_params = calls[j].cam_params)
        => /\ calls[i].reference_points_cam = calls[j].reference_points_cam
           /\ calls[i].bev_mask = calls[j].bev_mask
           /\ calls[i].ret = calls[j].ret

C5_ProjectedOnceSharedByLayers ==
    enc # None =>
        IF pc = "enc_project"
        THEN enc.projections = <<>> /\ enc.layer_log = <<>>
        ELSE /\ Len(enc.projections) = 1
             /\ enc.projections[1].at_lid = 0
             /\ enc.reference_points_cam = enc.projections[1].cam
             /\ enc.bev_mask = enc.projections[1].mask
             /\ \A i \in DOMAIN enc.layer_log :
                 LET l == enc.layer_log[i]
                 IN  /\ l.args.reference_points_cam = enc.projections[1].cam
                     /\ l.args.kwargs.bev_mask = enc.projections[1].mask
                     /\ \A k \in DOMAIN l.pass.log :
                         l.pass.log[k].op = "cross_attn" =>
                             /\ l.pass.log[k].out.reference_points_cam
                                    = enc.projections[1].cam
                             /\ l.pass.log[k].out.kwargs.bev_mask
                                    = enc.projections[1].mask

\* two layers have run on a projection whose mask has visible and masked points
C5_Witness ==
    /\ enc # None /\ pc = "enc_loop"
    /\ Len(enc.layer_log) >= 2
    /\ \E c1 \in DOMAIN enc.bev_mask : \E c2 \in DOMAIN enc.bev_mask :
        /\ enc.bev_mask[c1][1][1][1]
        /\ ~enc.bev_mask[c2][1][1][1]
    /\ enc.layer_log[2].args.kwargs.bev_mask = enc.bev_mask
    /\ enc.layer_log[2].args.reference_points_cam = enc.reference_points_cam

====
